---------------------------- MODULE Spec2Model ----------------------------
(***************************************************************************)
(* RigelEngine, src/engine/sprite_factory.cpp: the sprite factory.         *)
(*                                                                         *)
(* A SpriteFactory assembles, per ActorID, the draw data of a sprite from  *)
(* the parts an asset package supplies, caches it, and hands out Sprites   *)
(* that reference the cached draw data.  ActorIDs are modelled by their    *)
(* enumerator names.  Frame indices are 0-based as in the source; the      *)
(* sequences holding frames are 1-based, so frame i is element i + 1.      *)
(***************************************************************************)
EXTENDS Integers, Sequences, FiniteSets, TLC

(***************************************************************************)
(* Bounds of the model.                                                    *)
(***************************************************************************)
\* Calls (createSprite, actorFrameRect) made on the one factory.
MaxCalls == 3
\* The asset package supplies, for each part, Min(nominal count, cap) frames
\* for a cap in 0..MaxCap, or the nominal count (cap = MaxCap + 1).
MaxCap == 2
\* Largest `frame` argument passed to actorFrameRect.
MaxFrame == 1
\* Largest base draw order handed to adjustedDrawOrder on its own.
MaxDrawIndex == 5

(***************************************************************************)
(* Program constants.                                                      *)
(***************************************************************************)
SCALE_FACTOR == 10
\* Declared in headers of the engine; the values are not set in this file.
IGNORE_RENDER_SLOT == -1
PLAYER_PROJECTILE_DRAW_ORDER == 11
MUZZLE_FLASH_DRAW_ORDER == 12
EFFECT_DRAW_ORDER == 13
TILE_SIZE == 8

(***************************************************************************)
(* ActorIDs.                                                               *)
(***************************************************************************)
PlayerProjectileIds ==
  {"Duke_rocket_up", "Duke_rocket_down", "Duke_rocket_left",
   "Duke_rocket_right", "Duke_laser_shot_horizontal",
   "Duke_laser_shot_vertical", "Duke_regular_shot_horizontal",
   "Duke_regular_shot_vertical", "Duke_flame_shot_up",
   "Duke_flame_shot_down", "Duke_flame_shot_left", "Duke_flame_shot_right",
   "Reactor_fire_LEFT", "Reactor_fire_RIGHT"}

MuzzleFlashIds ==
  {"Muzzle_flash_up", "Muzzle_flash_down", "Muzzle_flash_left",
   "Muzzle_flash_right"}

EffectIds ==
  {"Explosion_FX_1", "Explosion_FX_2", "Shot_impact_FX", "Smoke_puff_FX",
   "Hoverbot_debris_1", "Hoverbot_debris_2", "Nuclear_waste_can_debris_1",
   "Nuclear_waste_can_debris_2", "Nuclear_waste_can_debris_3",
   "Nuclear_waste_can_debris_4", "Flame_thrower_fire_RIGHT",
   "Flame_thrower_fire_LEFT", "Nuclear_explosion",
   "Watchbot_container_debris_1", "Watchbot_container_debris_2",
   "Fire_bomb_fire", "Duke_death_particles", "Bonus_globe_debris_1",
   "Bonus_globe_debris_2", "White_circle_flash_FX",
   "Nuclear_waste_can_green_slime_inside", "Smoke_cloud_FX",
   "Biological_enemy_debris", "Missile_debris", "Eyeball_projectile",
   "Enemy_laser_muzzle_flash_1", "Enemy_laser_muzzle_flash_2",
   "Metal_grabber_claw_debris_1", "Metal_grabber_claw_debris_2",
   "Yellow_fireball_FX", "Green_fireball_FX", "Blue_fireball_FX",
   "Coke_can_debris_1", "Coke_can_debris_2",
   "Spiked_green_creature_eye_FX_LEFT", "Spiked_green_creature_eye_FX_RIGHT",
   "Spiked_green_creature_stone_debris_1_LEFT",
   "Spiked_green_creature_stone_debris_2_LEFT",
   "Spiked_green_creature_stone_debris_3_LEFT",
   "Spiked_green_creature_stone_debris_4_LEFT",
   "Spiked_green_creature_stone_debris_1_RIGHT",
   "Spiked_green_creature_stone_debris_2_RIGHT",
   "Spiked_green_creature_stone_debris_3_RIGHT",
   "Spiked_green_creature_stone_debris_4_RIGHT", "Spider_shaken_off",
   "Windblown_spider_generator", "Spider_debris_2", "Spider_blowing_in_wind",
   "Prisoner_hand_debris", "Rigelatin_soldier_projectile"}

ScoreNumberIds ==
  {"Score_number_FX_100", "Score_number_FX_500", "Score_number_FX_2000",
   "Score_number_FX_5000", "Score_number_FX_10000"}

DukeIds == {"Duke_LEFT", "Duke_RIGHT"}

ReactorFireIds == {"Reactor_fire_LEFT", "Reactor_fire_RIGHT"}

DukesShipIds ==
  {"Dukes_ship_LEFT", "Dukes_ship_RIGHT",
   "Dukes_ship_after_exiting_LEFT", "Dukes_ship_after_exiting_RIGHT"}

MessengerDroneIds ==
  {"Messenger_drone_1", "Messenger_drone_2", "Messenger_drone_3",
   "Messenger_drone_4", "Messenger_drone_5"}

BlueBonusGlobeIds ==
  {"Blue_bonus_globe_1", "Blue_bonus_globe_2", "Blue_bonus_globe_3",
   "Blue_bonus_globe_4"}

\* The actor kinds of one level: the ids createSprite and actorFrameRect
\* are called with during one run of the factory.
Levels ==
  { {"Blue_guard_RIGHT", "Napalm_bomb", "Bomb_dropping_spaceship",
     "Watchbot_container_carrier", "Teleporter_1", "Blue_guard_LEFT"},
    {"Dukes_ship_LEFT", "Dukes_ship_RIGHT", "Dukes_ship_after_exiting_LEFT",
     "Dukes_ship_after_exiting_RIGHT", "Spider", "Unicycle_bot"},
    {"Duke_LEFT", "Duke_RIGHT", "Messenger_drone_1", "Reactor_fire_LEFT",
     "Radar_computer_terminal", "Hoverbot"},
    {"BOSS_Episode_1", "BOSS_Episode_3", "BOSS_Episode_4", "Lava_fountain",
     "Sentry_robot_generator", "Rocket_elevator"},
    {"Green_slime_blob", "Eyeball_thrower_LEFT", "Missile_intact",
     "Metal_grabber_claw", "Blue_guard_using_a_terminal",
     "Watchbot_container"},
    {"Super_force_field_LEFT", "Big_green_cat_LEFT", "Big_green_cat_RIGHT",
     "Spiked_green_creature_LEFT", "Spiked_green_creature_RIGHT",
     "Turkey"} }

MainIds == UNION Levels

(***************************************************************************)
(* Small helpers.                                                          *)
(***************************************************************************)
Min(a, b) == IF a < b THEN a ELSE b

Last(s) == s[Len(s)]

\* The elements of a sequence of sequences, in order.
RECURSIVE Flatten(_)
Flatten(ss) ==
  IF ss = <<>> THEN <<>> ELSE Head(ss) \o Flatten(Tail(ss))

\* std::vector::insert(begin() + pos, e), pos 0-based and at most Len(s).
InsertAt(s, pos, e) ==
  SubSeq(s, 1, pos) \o <<e>> \o SubSeq(s, pos + 1, Len(s))

\* base::Vector addition.
VecAdd(v, w) == <<v[1] + w[1], v[2] + w[2]>>

ShiftOffset(f, d) == [f EXCEPT !.mDrawOffset = VecAdd(@, d)]

(***************************************************************************)
(* Per-actor tables.                                                       *)
(***************************************************************************)
NoOffset == <<>>

\* std::optional<int>: <<>> is std::nullopt, <<n>> holds n.
orientationOffsetForActor(actorId) ==
  CASE actorId \in DukeIds -> <<39>>
    [] actorId = "Snake" -> <<9>>
    [] actorId = "Eyeball_thrower_LEFT" -> <<10>>
    [] actorId = "Skeleton" -> <<4>>
    [] actorId = "Spider" -> <<13>>
    [] actorId = "Red_box_turkey" -> <<2>>
    [] actorId = "Rigelatin_soldier" -> <<4>>
    [] actorId = "Ugly_green_bird" -> <<3>>
    [] actorId \in {"Big_green_cat_LEFT", "Big_green_cat_RIGHT"} -> <<3>>
    [] actorId \in {"Spiked_green_creature_LEFT",
                    "Spiked_green_creature_RIGHT"} -> <<6>>
    [] actorId = "Unicycle_bot" -> <<4>>
    [] actorId \in DukesShipIds -> <<6>>
    [] OTHER -> NoOffset

SPIDER_FRAME_MAP ==
  <<3, 4, 5, 9, 10, 11, 6, 8, 9, 14, 15, 12, 13,
    0, 1, 2, 6, 7, 8, 6, 8, 9, 12, 13, 14, 15>>

UNICYCLE_FRAME_MAP == <<0, 5, 1, 2, 0, 5, 3, 4>>

DUKES_SHIP_FRAME_MAP == <<0, 1, 10, 11, 8, 9, 2, 3, 6, 7, 4, 5>>

\* frameMapForActor without the case for the Duke's ship ids.
frameMapForActorNoShip(actorId) ==
  CASE actorId = "Spider" -> SPIDER_FRAME_MAP
    [] actorId = "Unicycle_bot" -> UNICYCLE_FRAME_MAP
    [] OTHER -> <<>>

frameMapForActor(actorId) ==
  CASE actorId = "Spider" -> SPIDER_FRAME_MAP
    [] actorId = "Unicycle_bot" -> UNICYCLE_FRAME_MAP
    [] actorId \in DukesShipIds -> DUKES_SHIP_FRAME_MAP
    [] OTHER -> <<>>

actorIDListForActor(ID) ==
  CASE ID = "Hoverbot" -> <<"Hoverbot", "Hoverbot_teleport_FX">>
    [] ID \in DukeIds -> <<"Duke_LEFT", "Duke_RIGHT">>
    [] ID \in BlueBonusGlobeIds -> <<ID, "Bonus_globe_shell">>
    [] ID = "Teleporter_1" -> <<"Teleporter_2">>
    [] ID = "Green_slime_blob" ->
         <<"Green_slime_blob", "Green_slime_blob_flying_on_ceiling">>
    [] ID = "Eyeball_thrower_LEFT" ->
         <<"Eyeball_thrower_LEFT", "Eyeball_thrower_RIGHT">>
    [] ID = "Bomb_dropping_spaceship" ->
         <<"Bomb_dropping_spaceship", "Napalm_bomb">>
    [] ID = "Blowing_fan" -> <<"Blowing_fan", "Blowing_fan_threads_on_top">>
    [] ID = "Missile_intact" -> <<"Missile_intact", "Missile_exhaust_flame">>
    [] ID \in {"Blue_guard_LEFT", "Blue_guard_using_a_terminal"} ->
         <<"Blue_guard_RIGHT">>
    [] ID \in {"Enemy_laser_shot_LEFT", "Enemy_laser_shot_RIGHT"} ->
         <<"Enemy_laser_shot_RIGHT">>
    [] ID = "Red_box_turkey" -> <<"Turkey">>
    [] ID \in MessengerDroneIds ->
         <<"Messenger_drone_body", "Messenger_drone_part_1",
           "Messenger_drone_part_2", "Messenger_drone_part_3",
           "Messenger_drone_exhaust_flame_1",
           "Messenger_drone_exhaust_flame_2",
           "Messenger_drone_exhaust_flame_3", ID>>
    [] ID \in {"Big_green_cat_LEFT", "Big_green_cat_RIGHT"} ->
         <<"Big_green_cat_LEFT", "Big_green_cat_RIGHT">>
    [] ID \in {"Spiked_green_creature_LEFT",
               "Spiked_green_creature_RIGHT"} ->
         <<"Spiked_green_creature_LEFT", "Spiked_green_creature_RIGHT">>
    [] ID \in DukesShipIds ->
         <<"Dukes_ship_LEFT", "Dukes_ship_RIGHT",
           "Dukes_ship_exhaust_flames">>
    [] ID = "Watchbot_container_carrier" ->
         <<"Watchbot_container_carrier", "Watchbot_container">>
    [] OTHER -> <<ID>>

\* The ids with a case in configureSprite, and the list each case assigns.
ConfiguredIds ==
  {"Hoverbot", "Bomb_dropping_spaceship", "Green_slime_blob",
   "Eyeball_thrower_LEFT", "Sentry_robot_generator", "Missile_intact",
   "Metal_grabber_claw", "Spider", "Blue_guard_LEFT", "BOSS_Episode_1",
   "BOSS_Episode_3", "BOSS_Episode_4", "Rocket_elevator",
   "Blue_guard_using_a_terminal", "Lava_fountain",
   "Radar_computer_terminal", "Watchbot_container",
   "Watchbot_container_carrier", "Super_force_field_LEFT",
   "Big_green_cat_LEFT", "Big_green_cat_RIGHT",
   "Spiked_green_creature_LEFT", "Spiked_green_creature_RIGHT",
   "Duke_LEFT", "Duke_RIGHT"} \cup DukesShipIds

\* configureSprite: the sprite's mFramesToRender after the call.
configureSprite(framesToRender, actorID) ==
  CASE actorID = "Hoverbot" -> <<0>>
    [] actorID = "Bomb_dropping_spaceship" -> <<3, 0, 1>>
    [] actorID = "Green_slime_blob" -> <<0>>
    [] actorID = "Eyeball_thrower_LEFT" -> <<0>>
    [] actorID = "Sentry_robot_generator" -> <<0, 4>>
    [] actorID = "Missile_intact" -> <<0>>
    [] actorID = "Metal_grabber_claw" -> <<1>>
    [] actorID = "Spider" -> <<6>>
    [] actorID = "Blue_guard_LEFT" -> <<6>>
    [] actorID = "BOSS_Episode_1" -> <<0, 2>>
    [] actorID = "BOSS_Episode_3" -> <<IGNORE_RENDER_SLOT, 1, 0>>
    [] actorID = "BOSS_Episode_4" -> <<0, 1>>
    [] actorID = "Rocket_elevator" -> <<5, 0>>
    [] actorID = "Blue_guard_using_a_terminal" -> <<12>>
    [] actorID = "Lava_fountain" -> <<>>
    [] actorID = "Radar_computer_terminal" -> <<0, 1, 2, 3>>
    [] actorID = "Watchbot_container" -> <<0, 1>>
    [] actorID = "Watchbot_container_carrier" -> <<0, 2>>
    [] actorID = "Super_force_field_LEFT" -> <<0, 3>>
    [] actorID \in {"Big_green_cat_LEFT", "Big_green_cat_RIGHT",
                    "Spiked_green_creature_LEFT",
                    "Spiked_green_creature_RIGHT",
                    "Duke_LEFT", "Duke_RIGHT"} \cup DukesShipIds -> <<0>>
    [] OTHER -> framesToRender

\* The ids with a case of their own in each of the other tables.
ResolverIds ==
  {"Hoverbot", "Teleporter_1", "Green_slime_blob", "Eyeball_thrower_LEFT",
   "Bomb_dropping_spaceship", "Blowing_fan", "Missile_intact",
   "Blue_guard_LEFT", "Blue_guard_using_a_terminal",
   "Enemy_laser_shot_LEFT", "Enemy_laser_shot_RIGHT", "Red_box_turkey",
   "Big_green_cat_LEFT", "Big_green_cat_RIGHT",
   "Spiked_green_creature_LEFT", "Spiked_green_creature_RIGHT",
   "Watchbot_container_carrier"}
    \cup DukeIds \cup BlueBonusGlobeIds \cup MessengerDroneIds
    \cup DukesShipIds

TweakIds ==
  DukeIds \cup ReactorFireIds \cup DukesShipIds
    \cup {"Radar_computer_terminal", "Bomb_dropping_spaceship",
          "Watchbot_container_carrier"}

OrientationIds ==
  {"Snake", "Eyeball_thrower_LEFT", "Skeleton", "Spider", "Red_box_turkey",
   "Rigelatin_soldier", "Ugly_green_bird", "Big_green_cat_LEFT",
   "Big_green_cat_RIGHT", "Spiked_green_creature_LEFT",
   "Spiked_green_creature_RIGHT", "Unicycle_bot"}
    \cup DukeIds \cup DukesShipIds

RemapIds == {"Spider", "Unicycle_bot"} \cup DukesShipIds

scale(drawOrderValue) == drawOrderValue * SCALE_FACTOR

\* adjustedDrawOrder without the bomb's adjustment.
adjustedDrawOrderNoBombAdjust(id, baseDrawOrder) ==
  CASE id \in PlayerProjectileIds -> scale(PLAYER_PROJECTILE_DRAW_ORDER)
    [] id \in MuzzleFlashIds -> scale(MUZZLE_FLASH_DRAW_ORDER)
    [] id \in EffectIds -> scale(EFFECT_DRAW_ORDER)
    [] id \in ScoreNumberIds -> scale(EFFECT_DRAW_ORDER)
    [] OTHER -> scale(baseDrawOrder)

\* adjustedDrawOrder returning the base order unscaled by default.
adjustedDrawOrderUnscaled(id, baseDrawOrder) ==
  CASE id \in PlayerProjectileIds -> scale(PLAYER_PROJECTILE_DRAW_ORDER)
    [] id \in MuzzleFlashIds -> scale(MUZZLE_FLASH_DRAW_ORDER)
    [] id \in EffectIds -> scale(EFFECT_DRAW_ORDER)
    [] id \in ScoreNumberIds -> scale(EFFECT_DRAW_ORDER)
    [] id = "Napalm_bomb" -> scale(baseDrawOrder) - 1
    [] OTHER -> baseDrawOrder

adjustedDrawOrder(id, baseDrawOrder) ==
  CASE id \in PlayerProjectileIds -> scale(PLAYER_PROJECTILE_DRAW_ORDER)
    [] id \in MuzzleFlashIds -> scale(MUZZLE_FLASH_DRAW_ORDER)
    [] id \in EffectIds -> scale(EFFECT_DRAW_ORDER)
    [] id \in ScoreNumberIds -> scale(EFFECT_DRAW_ORDER)
    [] id = "Napalm_bomb" -> scale(baseDrawOrder) - 1
    [] OTHER -> scale(baseDrawOrder)


(***************************************************************************)
(* The asset package (loader::ActorImagePackage).  Its content is fixed    *)
(* for the life of the factory: package.cap decides how many frames each   *)
(* part supplies and package.missing names the part, if any, whose load    *)
(* fails.                                                                  *)
(***************************************************************************)
NoPart == "none"

\* Parts whose load may fail: a single part, the second of two and the
\* third of three.
MissingChoices == {"Blue_guard_RIGHT", "Napalm_bomb", "Dukes_ship_exhaust_flames"}

\* Frames a part has in a complete package.  The counts for Duke's ship
\* are those of the comment in applyTweaks; the others are the least that
\* the tables above index.
NominalFrames(part) ==
  CASE part \in {"Dukes_ship_LEFT", "Dukes_ship_RIGHT"} -> 2
    [] part = "Dukes_ship_exhaust_flames" -> 6
    [] part \in DukeIds -> 39
    [] part = "Spider" -> 16
    [] part = "Unicycle_bot" -> 6
    [] part = "Bomb_dropping_spaceship" -> 3
    [] part = "Napalm_bomb" -> 2
    [] part = "Watchbot_container_carrier" -> 2
    [] part = "Watchbot_container" -> 2
    [] part = "Messenger_drone_body" -> 1
    [] part = "Messenger_drone_part_2" -> 3
    [] part = "Messenger_drone_part_3" -> 4
    [] part = "Messenger_drone_exhaust_flame_2" -> 3
    [] part = "Messenger_drone_1" -> 1
    [] part = "BOSS_Episode_1" -> 3
    [] part = "Lava_fountain" -> 4
    [] part = "Radar_computer_terminal" -> 10
    [] part = "Blue_guard_RIGHT" -> 13
    [] part = "Sentry_robot_generator" -> 5
    [] part = "Rocket_elevator" -> 6
    [] part = "Super_force_field_LEFT" -> 4
    [] part \in {"Big_green_cat_LEFT", "Big_green_cat_RIGHT"} -> 3
    [] part \in {"Spiked_green_creature_LEFT",
                 "Spiked_green_creature_RIGHT"} -> 6
    [] part \in {"Eyeball_thrower_LEFT", "Eyeball_thrower_RIGHT"} -> 10
    [] OTHER -> 2

FrameCount(pkg, part) ==
  IF pkg.cap > MaxCap THEN NominalFrames(part)
  ELSE Min(NominalFrames(part), pkg.cap)

\* The draw index stored with a part.
DrawIndexOf(part) ==
  CASE part \in {"Blue_guard_RIGHT", "Napalm_bomb"} -> 5
    [] part \in {"Dukes_ship_LEFT", "Dukes_ship_RIGHT"} -> 3
    [] part = "Dukes_ship_exhaust_flames" -> 4
    [] part = "Bomb_dropping_spaceship" -> 1
    [] OTHER -> 2

\* Frame i (0-based) of a part as the package holds it: an image, which is
\* known by its part, its index and its size in pixels, and the authored
\* draw offset.
SourceFrame(part, i) ==
  [mFrameImage |-> [part |-> part, index |-> i,
                    extents |-> <<TILE_SIZE * (1 + (i % 3)) + 4,
                                  TILE_SIZE * (2 + (i % 2))>>],
   mDrawOffset |-> <<(i % 3) - DrawIndexOf(part), -(2 * i) - 1>>]

Available(pkg, part) == part # pkg.missing

\* ActorImagePackage::loadActor for a part that is available.
loadActor(pkg, part) ==
  [mDrawIndex |-> DrawIndexOf(part),
   mFrames |-> [j \in 1..FrameCount(pkg, part) |-> SourceFrame(part, j - 1)]]

\* data::pixelExtentsToTileExtents
pixelExtentsToTileExtents(extents) ==
  <<extents[1] \div TILE_SIZE, extents[2] \div TILE_SIZE>>

(***************************************************************************)
(* Assembly.                                                               *)
(***************************************************************************)
\* A texture is known by the image it was created from.
createFrameDrawData(frameData) ==
  [mImage |-> frameData.mFrameImage, mDrawOffset |-> frameData.mDrawOffset]

\* What an out-of-range element of a frame vector reads as, when the read
\* does not end the process.
GarbageFrame ==
  [mImage |-> [part |-> "garbage", index |-> 0, extents |-> <<0, 0>>],
   mDrawOffset |-> <<0, 0>>]

\* The outcomes of a tweak that indexes past the end of `frames`: the
\* process ends, or it goes on with the frames as they were or with a
\* stray element.
OutOfRange(frames) ==
  { [crash |-> TRUE, frames |-> <<>>, textures |-> 0],
    [crash |-> FALSE, frames |-> frames, textures |-> 0],
    [crash |-> FALSE, frames |-> Append(frames, GarbageFrame),
     textures |-> 0] }

Tweaked(frames, textures) ==
  {[crash |-> FALSE, frames |-> frames, textures |-> textures]}

\* The player sprite: x - 1 on frames 0..38 but 35 and 36.
TweakDuke(frames) ==
  [j \in 1..Len(frames) |->
     IF j - 1 < 39 /\ j - 1 \notin {35, 36}
     THEN ShiftOffset(frames[j], <<-1, 0>>) ELSE frames[j]]

TweakReactorFire(frames) ==
  [frames EXCEPT ![1].mDrawOffset = <<0, @[2]>>]

TweakRadar(frames) ==
  [j \in 1..Len(frames) |->
     IF j - 1 >= 8 THEN ShiftOffset(frames[j], <<-1, 0>>) ELSE frames[j]]

\* The Duke's ship tweak without the x + 1 on the inserted copies.
TweakDukesShipNoShift(frames, actorParts) ==
  LET a == InsertAt(frames, 8, createFrameDrawData(actorParts[3].mFrames[1]))
  IN  InsertAt(a, 9, createFrameDrawData(actorParts[3].mFrames[2]))

\* Duke's ship: copies of frames 0 and 1 of the third part go in at
\* positions 8 and 9, then x + 1 on both.
TweakDukesShip(frames, actorParts) ==
  LET a == InsertAt(frames, 8, createFrameDrawData(actorParts[3].mFrames[1]))
      b == InsertAt(a, 9, createFrameDrawData(actorParts[3].mFrames[2]))
  IN  [b EXCEPT ![9] = ShiftOffset(@, <<1, 0>>),
                ![10] = ShiftOffset(@, <<1, 0>>)]

TweakBombDroppingSpaceship(frames) ==
  SubSeq([frames EXCEPT ![4] = ShiftOffset(@, <<2, 0>>)], 1, 4)

TweakWatchbotCarrier(frames) ==
  SubSeq([frames EXCEPT ![3] = ShiftOffset(@, <<0, -2>>)], 1, 3)

\* applyTweaks: the set of outcomes, each the frames after the call and the
\* textures it created.  A rule that indexes `frames` or a part's frames
\* out of range is undefined behaviour.
applyTweaks(frames, actorId, actorParts) ==
  CASE actorId \in DukeIds ->
         IF Len(frames) >= 39 THEN Tweaked(TweakDuke(frames), 0)
         ELSE OutOfRange(frames)
    [] actorId \in ReactorFireIds ->
         IF Len(frames) >= 1 THEN Tweaked(TweakReactorFire(frames), 0)
         ELSE OutOfRange(frames)
    [] actorId = "Radar_computer_terminal" -> Tweaked(TweakRadar(frames), 0)
    [] actorId \in DukesShipIds ->
         IF Len(actorParts) >= 3 /\ Len(actorParts[3].mFrames) >= 2
            /\ Len(frames) >= 8
         THEN Tweaked(TweakDukesShip(frames, actorParts), 2)
         ELSE OutOfRange(frames)
    [] actorId = "Bomb_dropping_spaceship" ->
         IF Len(frames) >= 4
         THEN Tweaked(TweakBombDroppingSpaceship(frames), 0)
         ELSE OutOfRange(frames)
    [] actorId = "Watchbot_container_carrier" ->
         IF Len(frames) >= 3 THEN Tweaked(TweakWatchbotCarrier(frames), 0)
         ELSE OutOfRange(frames)
    [] OTHER -> Tweaked(frames, 0)

\* The loop of createOrFindData over the loaded parts: framesToRender gets
\* lastFrameCount, which is then set to the part's frame count.
initialFramesToRender(actorParts) ==
  [j \in 1..Len(actorParts) |->
     IF j = 1 THEN 0 ELSE Len(actorParts[j - 1].mFrames)]

concatenatedFrames(actorParts) ==
  Flatten([j \in 1..Len(actorParts) |->
             [k \in 1..Len(actorParts[j].mFrames) |->
                createFrameDrawData(actorParts[j].mFrames[k])]])

NoData ==
  [obj |-> 0,
   mDrawData |-> [mFrames |-> <<>>, mOrientationOffset |-> NoOffset,
                  mVirtualToRealFrameMap |-> <<>>, mDrawOrder |-> 0],
   mInitialFramesToRender |-> <<>>]

\* The first part, in load order, whose load fails; 0 when none does.
FirstFailing(pkg, actorPartIds) ==
  LET failing == {j \in 1..Len(actorPartIds) : ~Available(pkg, actorPartIds[j])}
  IN  IF failing = {} THEN 0
      ELSE CHOOSE j \in failing : \A k \in failing : j <= k

\* The cache-miss branch of createOrFindData with every part loaded: the
\* outcomes of building the SpriteData that is emplaced as object `obj`.
buildSpriteData(pkg, mainId, obj) ==
  LET actorPartIds == actorIDListForActor(mainId)
      actorParts == [j \in 1..Len(actorPartIds) |->
                       loadActor(pkg, actorPartIds[j])]
      lastDrawOrder == Last(actorParts).mDrawIndex
      frames == concatenatedFrames(actorParts)
  IN  { [kind |-> IF t.crash THEN "crash" ELSE "built",
         data |-> IF t.crash THEN NoData
                  ELSE [obj |-> obj,
                        mDrawData |->
                          [mFrames |-> t.frames,
                           mOrientationOffset |->
                             orientationOffsetForActor(mainId),
                           mVirtualToRealFrameMap |->
                             frameMapForActor(mainId),
                           mDrawOrder |->
                             adjustedDrawOrder(mainId, lastDrawOrder)],
                        mInitialFramesToRender |->
                          initialFramesToRender(actorParts)],
         loads |-> Len(actorPartIds),
         textures |-> Len(frames) + t.textures]
        : t \in applyTweaks(frames, mainId, actorParts) }

\* createOrFindData that never looks into the cache.
createOrFindDataRebuild(cache, pkg, mainId, obj) ==
  LET failed == FirstFailing(pkg, actorIDListForActor(mainId))
  IN  IF failed # 0
      THEN {[kind |-> "loadfail", data |-> NoData, loads |-> failed,
             textures |-> 0]}
      ELSE buildSpriteData(pkg, mainId, obj)

\* SpriteFactory::createOrFindData: the outcomes of one call, given the
\* cache.  "found": the cached entry; "built": a new entry, to be emplaced;
\* "loadfail": loadActor threw; "crash": the process ended.
createOrFindData(cache, pkg, mainId, obj) ==
  IF mainId \in DOMAIN cache
  THEN {[kind |-> "found", data |-> cache[mainId], loads |-> 0,
         textures |-> 0]}
  ELSE LET failed == FirstFailing(pkg, actorIDListForActor(mainId))
       IN  IF failed # 0
           THEN {[kind |-> "loadfail", data |-> NoData, loads |-> failed,
                  textures |-> 0]}
           ELSE buildSpriteData(pkg, mainId, obj)

\* No emplace at all.
cacheAfterNoEmplace(cache, mainId, outcome) == cache

\* An entry is emplaced before the parts are loaded, and stays when a load
\* fails.
cacheAfterPartial(cache, mainId, outcome) ==
  IF outcome.kind \in {"built", "loadfail"}
  THEN cache @@ (mainId :> outcome.data)
  ELSE cache

\* mSpriteDataCache after the call: emplace on "built", untouched otherwise.
cacheAfter(cache, mainId, outcome) ==
  IF outcome.kind = "built" THEN cache @@ (mainId :> outcome.data)
  ELSE cache

(***************************************************************************)
(* Virtual to real frame (engine/sprite_tools).                            *)
(***************************************************************************)
NoOrientation == <<>>

\* The index looked up: the virtual frame plus, for orientation k of an
\* actor with an orientation offset, k times that offset.
orientedFrame(virtualFrame, drawData, orientation) ==
  IF orientation # NoOrientation /\ drawData.mOrientationOffset # NoOffset
  THEN virtualFrame + orientation[1] * drawData.mOrientationOffset[1]
  ELSE virtualFrame

\* Whether the lookup stays inside the remap table.
frameMapInRange(virtualFrame, drawData, orientation) ==
  \/ drawData.mVirtualToRealFrameMap = <<>>
  \/ orientedFrame(virtualFrame, drawData, orientation) + 1
       \in 1..Len(drawData.mVirtualToRealFrameMap)

virtualToRealFrame(virtualFrame, drawData, orientation) ==
  LET frame == orientedFrame(virtualFrame, drawData, orientation)
  IN  IF drawData.mVirtualToRealFrameMap # <<>>
      THEN drawData.mVirtualToRealFrameMap[frame + 1]
      ELSE frame

\* The rect of a frame: its draw offset and its image's size in tiles.
frameRect(frameData) ==
  [topLeft |-> frameData.mDrawOffset,
   size |-> pixelExtentsToTileExtents(frameData.mImage.extents)]

\* The frame index actorFrameRect resolves for its `frame` argument.
actorFrameRectRealFrame(frame, drawData) ==
  virtualToRealFrame(0, drawData, NoOrientation)

\* The outcomes of actorFrameRect once it holds the draw data: the rect of
\* the resolved frame, or, when that index is past the end of mFrames,
\* the end of the process or the rect of whatever is read.
actorFrameRectOutcomes(frame, drawData) ==
  LET realFrame == actorFrameRectRealFrame(frame, drawData)
  IN  IF realFrame + 1 \in 1..Len(drawData.mFrames)
      THEN {[crash |-> FALSE, rect |-> frameRect(drawData.mFrames[realFrame + 1])]}
      ELSE {[crash |-> TRUE, rect |-> frameRect(GarbageFrame)],
            [crash |-> FALSE, rect |-> frameRect(GarbageFrame)]}

(***************************************************************************)
(* State.                                                                  *)
(***************************************************************************)
VARIABLES
  level,             \* the ids this run calls the factory with
  package,           \* the asset package: [cap, missing]
  mSpriteDataCache,  \* ActorID -> SpriteData, for the ids assembled
  result,            \* what the last call returned
  crashed,           \* the process ended in undefined behaviour
  nCalls,            \* calls made so far
  nextObj,           \* SpriteData objects constructed so far
  assemblyRuns,      \* per id, the calls that missed the cache
  loaderCalls,       \* loadActor calls made
  texturesCreated,   \* textures the renderer was asked for
  query,             \* input of the draw-order classifier run on its own
  answer             \* its output, <<>> until computed

vars ==
  <<level, package, mSpriteDataCache, result, crashed, nCalls, nextObj,
    assemblyRuns, loaderCalls, texturesCreated, query, answer>>

factoryVars ==
  <<level, package, mSpriteDataCache, result, crashed, nCalls, nextObj,
    assemblyRuns, loaderCalls, texturesCreated>>

NoRect == [topLeft |-> <<0, 0>>, size |-> <<0, 0>>]

NoResult ==
  [op |-> "none", id |-> "", frame |-> 0, status |-> "none",
   mpDrawData |-> 0, mFramesToRender |-> <<>>, rect |-> NoRect]

NoQuery == [id |-> "", base |-> 0]

Packages ==
  [cap : 0..(MaxCap + 1), missing : {NoPart}]
    \cup [cap : {MaxCap + 1}, missing : MissingChoices]

Init ==
  /\ level \in Levels
  /\ package \in Packages
  /\ mSpriteDataCache = <<>>
  /\ result = NoResult
  /\ crashed = FALSE
  /\ nCalls = 0
  /\ nextObj = 0
  /\ assemblyRuns = [id \in MainIds |-> 0]
  /\ loaderCalls = 0
  /\ texturesCreated = 0
  /\ query = NoQuery
  /\ answer = <<>>

\* What every call does to the cache and the counters, given the outcome
\* of createOrFindData.
Bookkeeping(id, o) ==
  /\ mSpriteDataCache' = cacheAfter(mSpriteDataCache, id, o)
  /\ nCalls' = nCalls + 1
  /\ nextObj' = IF o.kind = "built" THEN nextObj + 1 ELSE nextObj
  /\ assemblyRuns' =
       IF o.kind = "found" THEN assemblyRuns
       ELSE [assemblyRuns EXCEPT ![id] = @ + 1]
  /\ loaderCalls' = loaderCalls + o.loads
  /\ texturesCreated' = texturesCreated + o.textures
  /\ UNCHANGED <<level, package, query, answer>>

\* A Sprite that is not configured.
spriteForUnconfigured(data, id) ==
  [op |-> "createSprite", id |-> id, frame |-> 0, status |-> "ok",
   mpDrawData |-> data.obj,
   mFramesToRender |-> data.mInitialFramesToRender,
   rect |-> NoRect]

\* The Sprite createSprite returns for the SpriteData it found or built:
\* constructed with mInitialFramesToRender, then configured.
spriteFor(data, id) ==
  [op |-> "createSprite", id |-> id, frame |-> 0, status |-> "ok",
   mpDrawData |-> data.obj,
   mFramesToRender |-> configureSprite(data.mInitialFramesToRender, id),
   rect |-> NoRect]

\* SpriteFactory::createSprite
createSprite(id) ==
  /\ ~crashed
  /\ nCalls < MaxCalls
  /\ \E o \in createOrFindData(mSpriteDataCache, package, id, nextObj + 1) :
       /\ Bookkeeping(id, o)
       /\ crashed' = (o.kind = "crash")
       /\ result' =
            IF o.kind \in {"found", "built"}
            THEN spriteFor(o.data, id)
            ELSE [NoResult EXCEPT !.op = "createSprite", !.id = id,
                                  !.status = o.kind]

\* SpriteFactory::actorFrameRect
actorFrameRect(id, frame) ==
  /\ ~crashed
  /\ nCalls < MaxCalls
  /\ \E o \in createOrFindData(mSpriteDataCache, package, id, nextObj + 1) :
       /\ Bookkeeping(id, o)
       /\ IF o.kind \in {"found", "built"}
          THEN \E r \in actorFrameRectOutcomes(frame, o.data.mDrawData) :
                 /\ crashed' = r.crash
                 /\ result' =
                      IF r.crash
                      THEN [NoResult EXCEPT !.op = "actorFrameRect",
                                            !.id = id, !.frame = frame,
                                            !.status = "crash"]
                      ELSE [op |-> "actorFrameRect", id |-> id,
                            frame |-> frame, status |-> "ok",
                            mpDrawData |-> o.data.obj,
                            mFramesToRender |-> <<>>, rect |-> r.rect]
          ELSE /\ crashed' = (o.kind = "crash")
               /\ result' = [NoResult EXCEPT !.op = "actorFrameRect",
                                             !.id = id, !.frame = frame,
                                             !.status = o.kind]

Next ==
  \/ \E id \in level : createSprite(id)
  \/ \E id \in level, frame \in 0..MaxFrame : actorFrameRect(id, frame)

Spec == Init /\ [][Next]_vars

(***************************************************************************)
(* The draw-order classifier on its own: adjustedDrawOrder applied to an   *)
(* id and a base draw order, the factory left alone.                       *)
(***************************************************************************)
DrawOrderIds ==
  PlayerProjectileIds \cup MuzzleFlashIds \cup EffectIds
    \cup ScoreNumberIds \cup {"Napalm_bomb"}

ClassifierIds ==
  MainIds \cup PlayerProjectileIds \cup MuzzleFlashIds \cup EffectIds
    \cup ScoreNumberIds

Queries == [id : ClassifierIds, base : 0..MaxDrawIndex]

InitOrder ==
  /\ level = {}
  /\ package = [cap |-> MaxCap + 1, missing |-> NoPart]
  /\ mSpriteDataCache = <<>>
  /\ result = NoResult
  /\ crashed = FALSE
  /\ nCalls = 0
  /\ nextObj = 0
  /\ assemblyRuns = [id \in MainIds |-> 0]
  /\ loaderCalls = 0
  /\ texturesCreated = 0
  /\ query \in Queries
  /\ answer = <<>>

classify ==
  /\ answer = <<>>
  /\ answer' = <<adjustedDrawOrder(query.id, query.base)>>
  /\ UNCHANGED <<factoryVars, query>>

ask ==
  /\ answer # <<>>
  /\ query' \in Queries
  /\ answer' = <<>>
  /\ UNCHANGED factoryVars

NextOrder == classify \/ ask

SpecOrder == InitOrder /\ [][NextOrder]_vars


(***************************************************************************)
(* Properties.                                                             *)
(***************************************************************************)
\* Every part of the id loads.
AllPartsLoad(id) == FirstFailing(package, actorIDListForActor(id)) = 0

\* The parts of an id as the package supplies them, and the frames they
\* give before any tweak.
LoadedParts(id) ==
  [j \in 1..Len(actorIDListForActor(id)) |->
     loadActor(package, actorIDListForActor(id)[j])]

AuthoredFrames(id) == concatenatedFrames(LoadedParts(id))

\* Assembly of the id meets no undefined behaviour.
WellDefinedAssembly(id) ==
  Cardinality(buildSpriteData(package, id, 0)) = 1

\* A step that is a call for an id that is, or is not, in the cache.
CallStep == nCalls' = nCalls + 1

Cached(id) == id \in DOMAIN mSpriteDataCache

\* C1: when every part of an id loads, assembly runs at most once for the
\* id: the first call makes one loadActor call per part and creates a
\* texture per frame, leaving an entry in the cache; a later call finds the
\* entry and makes no loadActor call and creates no texture.
C1_AssembledOnce ==
  /\ [](\A id \in MainIds :
          AllPartsLoad(id) =>
            /\ assemblyRuns[id] <= 1
            /\ (assemblyRuns[id] = 1 /\ ~crashed => Cached(id)))
  /\ [][CallStep =>
          IF Cached(result'.id)
          THEN /\ assemblyRuns' = assemblyRuns
               /\ loaderCalls' = loaderCalls
               /\ texturesCreated' = texturesCreated
          ELSE AllPartsLoad(result'.id) =>
                 /\ assemblyRuns'[result'.id] = 1
                 /\ loaderCalls' =
                      loaderCalls + Len(actorIDListForActor(result'.id))
                 /\ texturesCreated' >=
                      texturesCreated + Len(AuthoredFrames(result'.id))]_vars

\* A second call for the one id assembled so far has been answered from
\* the cache.
C1_Witness ==
  /\ nCalls = 2
  /\ result.status = "ok"
  /\ DOMAIN mSpriteDataCache = {result.id}
  /\ assemblyRuns[result.id] = 1
  /\ \A id \in MainIds \ {result.id} : assemblyRuns[id] = 0
  /\ loaderCalls > 0
  /\ texturesCreated > 0

\* C2: a Sprite returned by createSprite(id) references the SpriteData
\* object cached for id, which is the object built by the first call for
\* id, and no call changes or removes an entry that is in the cache.
C2_SharedUnchangedDrawData ==
  /\ [](/\ (result.op = "createSprite" /\ result.status = "ok") =>
              /\ Cached(result.id)
              /\ result.mpDrawData = mSpriteDataCache[result.id].obj
         /\ \A a, b \in DOMAIN mSpriteDataCache :
              mSpriteDataCache[a].obj = mSpriteDataCache[b].obj => a = b)
  /\ [][\A id \in DOMAIN mSpriteDataCache :
          /\ id \in DOMAIN mSpriteDataCache'
          /\ mSpriteDataCache'[id] = mSpriteDataCache[id]]_vars

\* createSprite is answered from the cache for the id assembled first,
\* after another id was assembled.
C2_Witness ==
  /\ nCalls = 3
  /\ result.op = "createSprite"
  /\ result.status = "ok"
  /\ Cardinality(DOMAIN mSpriteDataCache) = 2
  /\ result.mpDrawData = 1
  /\ nextObj = 2
  /\ Len(mSpriteDataCache[result.id].mDrawData.mFrames) > 0

\* C3: a call for an id one of whose parts does not load fails: it returns
\* neither a Sprite nor a rect, the cache holds no entry for the id after
\* it, and the cache is as it was before the call.
C3_LoadFailureLeavesCache ==
  [][(CallStep /\ ~Cached(result'.id) /\ ~AllPartsLoad(result'.id)) =>
       /\ result'.status = "loadfail"
       /\ result'.mFramesToRender = <<>>
       /\ result'.rect = NoRect
       /\ result'.mpDrawData = 0
       /\ ~(result'.id \in DOMAIN mSpriteDataCache')
       /\ mSpriteDataCache' = mSpriteDataCache]_vars

\* A call failed in the loader while the cache held an entry.
C3_Witness ==
  /\ result.status = "loadfail"
  /\ nCalls = 2
  /\ Cardinality(DOMAIN mSpriteDataCache) = 1
  /\ package.missing # NoPart

\* C4: the rect actorFrameRect(id, frame) returns is that of the frame the
\* `frame` argument resolves to through the id's remap table.
C4_RectOfRequestedFrame ==
  (result.op = "actorFrameRect" /\ result.status = "ok") =>
    LET drawData == mSpriteDataCache[result.id].mDrawData
        realFrame == virtualToRealFrame(result.frame, drawData, NoOrientation)
    IN  (/\ frameMapInRange(result.frame, drawData, NoOrientation)
         /\ realFrame + 1 \in 1..Len(drawData.mFrames)) =>
          result.rect = frameRect(drawData.mFrames[realFrame + 1])

\* C5: the Sprite createSprite returns for an id with a case in
\* configureSprite has the frames to render of that case, whatever
\* mInitialFramesToRender holds; so <<0, 2>> for BOSS_Episode_1,
\* <<IGNORE_RENDER_SLOT, 1, 0>> for BOSS_Episode_3, none for Lava_fountain.
C5_DefaultFramesToRender ==
  (result.op = "createSprite" /\ result.status = "ok"
     /\ result.id \in ConfiguredIds) =>
    /\ result.mFramesToRender = configureSprite(<<>>, result.id)
    /\ result.mFramesToRender = configureSprite(<<7, 7, 7>>, result.id)
    /\ result.id = "BOSS_Episode_1" => result.mFramesToRender = <<0, 2>>
    /\ result.id = "BOSS_Episode_3" =>
         result.mFramesToRender = <<IGNORE_RENDER_SLOT, 1, 0>>
    /\ result.id = "Lava_fountain" => result.mFramesToRender = <<>>
    /\ result.id = "Watchbot_container_carrier" =>
         result.mFramesToRender = <<0, 2>>

\* A configured id of two parts got its Sprite from the cache.
C5_Witness ==
  /\ result.op = "createSprite"
  /\ result.status = "ok"
  /\ result.id = "Watchbot_container_carrier"
  /\ Len(mSpriteDataCache[result.id].mInitialFramesToRender) = 2
  /\ nCalls = 2
  /\ nextObj = 1

\* The ids with a case in none of the tables.
UnclassifiedIds ==
  MainIds \ (ResolverIds \cup TweakIds \cup DrawOrderIds \cup ConfiguredIds
               \cup OrientationIds \cup RemapIds)

\* C6: for an id in none of the tables whose part loads, createSprite
\* succeeds, the part list is the id alone, the cached frames are the
\* part's frames with their authored offsets, the draw order is 10 times
\* the part's draw index, there is no orientation offset and no remap
\* table, and the Sprite renders frame 0.
C6_UnclassifiedDefaults ==
  /\ \A id \in UnclassifiedIds :
       /\ actorIDListForActor(id) = <<id>>
       /\ Cached(id) =>
            LET d == mSpriteDataCache[id].mDrawData
            IN  /\ Len(d.mFrames) = FrameCount(package, id)
                /\ \A j \in 1..Len(d.mFrames) :
                     /\ d.mFrames[j].mImage = SourceFrame(id, j - 1).mFrameImage
                     /\ d.mFrames[j].mDrawOffset =
                          SourceFrame(id, j - 1).mDrawOffset
                /\ d.mDrawOrder = 10 * DrawIndexOf(id)
                /\ d.mOrientationOffset = NoOffset
                /\ d.mVirtualToRealFrameMap = <<>>
  /\ (result.op = "createSprite" /\ result.id \in UnclassifiedIds
        /\ Available(package, result.id)) =>
       /\ result.status = "ok"
       /\ Cached(result.id)
       /\ result.mFramesToRender = <<0>>

C6_Witness ==
  /\ result.op = "createSprite"
  /\ result.id = "Blue_guard_RIGHT"
  /\ result.status = "ok"
  /\ Len(mSpriteDataCache[result.id].mDrawData.mFrames) = 13
  /\ mSpriteDataCache[result.id].mDrawData.mDrawOrder = 50

\* C7: adjustedDrawOrder gives 10 * base - 1 for Napalm_bomb, 10 times the
\* category's value whatever the base for the projectile, muzzle flash,
\* effect and score number ids, and 10 * base for every other id.
C7_DrawOrder ==
  answer # <<>> =>
    answer[1] =
      CASE query.id = "Napalm_bomb" -> 10 * query.base - 1
        [] query.id \in PlayerProjectileIds ->
             10 * PLAYER_PROJECTILE_DRAW_ORDER
        [] query.id \in MuzzleFlashIds -> 10 * MUZZLE_FLASH_DRAW_ORDER
        [] query.id \in EffectIds \cup ScoreNumberIds ->
             10 * EFFECT_DRAW_ORDER
        [] OTHER -> 10 * query.base

\* A generic id with base 5 classified as 50, or the bomb as 49.
C7_Witness ==
  /\ answer # <<>>
  /\ query.base = 5
  /\ \/ query.id = "Napalm_bomb" /\ answer = <<49>>
     \/ query.id = "Blue_guard_RIGHT" /\ answer = <<50>>

\* A frame index that the frames of a draw data hold.
ValidFrameIndex(index, drawData) == index \in 0..(Len(drawData.mFrames) - 1)

\* C8: after an assembly every entry of the id's remap table, and every
\* entry but IGNORE_RENDER_SLOT of the frames to render of a Sprite
\* createSprite returns, is an index into the assembled frames.
C8_IndicesValid ==
  /\ \A id \in DOMAIN mSpriteDataCache :
       WellDefinedAssembly(id) =>
         LET d == mSpriteDataCache[id].mDrawData
         IN  \A j \in 1..Len(d.mVirtualToRealFrameMap) :
               ValidFrameIndex(d.mVirtualToRealFrameMap[j], d)
  /\ (result.op = "createSprite" /\ result.status = "ok"
        /\ WellDefinedAssembly(result.id)) =>
       \A j \in 1..Len(result.mFramesToRender) :
         result.mFramesToRender[j] # IGNORE_RENDER_SLOT =>
           ValidFrameIndex(result.mFramesToRender[j],
                           mSpriteDataCache[result.id].mDrawData)

\* The parts of Duke's ship supply 2, 2 and 6 frames.
DukesShipPartsComplete ==
  /\ Len(loadActor(package, "Dukes_ship_LEFT").mFrames) = 2
  /\ Len(loadActor(package, "Dukes_ship_RIGHT").mFrames) = 2
  /\ Len(loadActor(package, "Dukes_ship_exhaust_flames").mFrames) = 6

\* Frame `copy` of the draw data has the image of frame `original`, the
\* same y offset and an x offset greater by 1.
ShiftedCopy(drawData, copy, original) ==
  LET c == drawData.mFrames[copy + 1]
      o == drawData.mFrames[original + 1]
  IN  /\ c.mImage = o.mImage
      /\ c.mDrawOffset = <<o.mDrawOffset[1] + 1, o.mDrawOffset[2]>>

\* C9 as stated: for the Duke's ship ids the assembled sequence has 12
\* frames and frames 8 and 9 are the images of frames 2 and 3, x + 1.
C9_CopiesOfFrames2And3 ==
  \A id \in DukesShipIds \cap DOMAIN mSpriteDataCache :
    DukesShipPartsComplete =>
      LET d == mSpriteDataCache[id].mDrawData
      IN  /\ Len(d.mFrames) = 12
          /\ ShiftedCopy(d, 8, 2)
          /\ ShiftedCopy(d, 9, 3)

\* C9, amended: for the Duke's ship ids the assembled sequence has 12
\* frames and frames 8 and 9 are the images of frames 4 and 5 (the first
\* two exhaust flame frames), with the same y offset and x + 1; the other
\* ten frames are the authored ones in order.
C9_CopiesOfFrames4And5 ==
  \A id \in DukesShipIds \cap DOMAIN mSpriteDataCache :
    DukesShipPartsComplete =>
      LET d == mSpriteDataCache[id].mDrawData
          authored == AuthoredFrames(id)
      IN  /\ Len(d.mFrames) = 12
          /\ ShiftedCopy(d, 8, 4)
          /\ ShiftedCopy(d, 9, 5)
          /\ SubSeq(d.mFrames, 1, 8) = SubSeq(authored, 1, 8)
          /\ SubSeq(d.mFrames, 11, 12) = SubSeq(authored, 9, 10)

C9_Witness ==
  /\ DukesShipPartsComplete
  /\ Cached("Dukes_ship_after_exiting_LEFT")
  /\ Cached("Dukes_ship_RIGHT")
  /\ Len(mSpriteDataCache["Dukes_ship_RIGHT"].mDrawData.mFrames) = 12

\* C10: once Bomb_dropping_spaceship has been assembled from parts that
\* load, whatever the number of frames they supply, its sequence has 4
\* frames, of which frames 0..2 have their authored offsets and frame 3
\* its authored offset plus (2, 0).
C10_TruncatedToFour ==
  LET id == "Bomb_dropping_spaceship"
  IN  (assemblyRuns[id] >= 1 /\ AllPartsLoad(id)) =>
        /\ Cached(id)
        /\ LET frames == mSpriteDataCache[id].mDrawData.mFrames
               authored == AuthoredFrames(id)
           IN  /\ Len(frames) = 4
               /\ Len(authored) >= 4
               /\ \A j \in 1..3 : frames[j] = authored[j]
               /\ frames[4] = ShiftOffset(authored[4], <<2, 0>>)


\* The running total of frames at the start of part j: the frames of the
\* parts before it.
RECURSIVE FramesBefore(_, _)
FramesBefore(actorParts, j) ==
  IF j <= 1 THEN 0
  ELSE FramesBefore(actorParts, j - 1) + Len(actorParts[j - 1].mFrames)

\* C11: the part boundaries recorded for an id have one entry per resolved
\* part, and the entry of part j is the number of frames of all the parts
\* before it, for ids of one, two, three and eight parts alike.
C11_PartBoundaries ==
  \A id \in DOMAIN mSpriteDataCache :
    LET boundaries == mSpriteDataCache[id].mInitialFramesToRender
        actorParts == LoadedParts(id)
    IN  /\ Len(boundaries) = Len(actorIDListForActor(id))
        /\ \A j \in 1..Len(boundaries) :
             boundaries[j] = FramesBefore(actorParts, j)

\* The orientations a frame is looked up for: none, or orientation 0 or 1.
Orientations == {NoOrientation, <<0>>, <<1>>}

\* The draw data of the id has the identity mapping.
IdentityMapping(drawData) ==
  \A v \in 0..MaxFrame, o \in Orientations :
    virtualToRealFrame(v, drawData, o) = v

\* C12 as stated: no cached draw data has both an orientation offset and a
\* remap table, and one with neither has the identity mapping.
C12_AtMostOneMechanism ==
  \A id \in DOMAIN mSpriteDataCache :
    LET d == mSpriteDataCache[id].mDrawData
    IN  /\ ~(d.mOrientationOffset # NoOffset
               /\ d.mVirtualToRealFrameMap # <<>>)
        /\ (d.mOrientationOffset = NoOffset
              /\ d.mVirtualToRealFrameMap = <<>>) => IdentityMapping(d)

\* C12, amended: the cached draw data of Spider, Unicycle_bot and the four
\* Duke's ship ids has both an orientation offset and a remap table, the
\* table holding one block of that many entries per orientation; every
\* other id has no remap table; an id with neither has the identity
\* mapping.
C12_RemapComesWithOrientation ==
  \A id \in DOMAIN mSpriteDataCache :
    LET d == mSpriteDataCache[id].mDrawData
    IN  /\ id \in {"Spider", "Unicycle_bot"} \cup DukesShipIds =>
             /\ d.mOrientationOffset # NoOffset
             /\ d.mVirtualToRealFrameMap # <<>>
             /\ Len(d.mVirtualToRealFrameMap) = 2 * d.mOrientationOffset[1]
        /\ id \notin {"Spider", "Unicycle_bot"} \cup DukesShipIds =>
             d.mVirtualToRealFrameMap = <<>>
        /\ (d.mOrientationOffset = NoOffset
              /\ d.mVirtualToRealFrameMap = <<>>) => IdentityMapping(d)

\* Spider and a Duke's ship id are cached, each with both mechanisms.
C12_Witness ==
  /\ Cached("Spider")
  /\ Cached("Dukes_ship_after_exiting_RIGHT")
  /\ mSpriteDataCache["Spider"].mDrawData.mOrientationOffset = <<13>>
  /\ Len(mSpriteDataCache["Dukes_ship_after_exiting_RIGHT"]
           .mDrawData.mVirtualToRealFrameMap) = 12

\* C13: when the parts an id was assembled from load but supply too few
\* frames for the id's tweak rule, the assembly ends in a failure the
\* caller sees: the process goes on, the call returns no Sprite and no
\* rect, and no entry for the id is in the cache.
C13_TweakOutOfRangeFails ==
  \A id \in TweakIds \cap MainIds :
    (assemblyRuns[id] >= 1 /\ AllPartsLoad(id) /\ ~WellDefinedAssembly(id)) =>
      /\ ~crashed
      /\ ~Cached(id)
      /\ result.id = id => result.status \notin {"ok", "crash"}

=============================================================================
